---- MODULE Spec2Model ----
(***************************************************************************)
(* Model of PerformanceTester (src/src/performance/tester.py).             *)
(* Spec: one load_test call, with the calling thread, the                  *)
(* ThreadPoolExecutor workers running _execute_request, and the            *)
(* monitor_resources background thread.                                    *)
(* StressSpec: the stress_test loop, each load_test call taken as one step.*)
(* AggSpec: the latency aggregation of load_test over a sample of floats.  *)
(* LLMSpec: the test operations of LLMTester (src/src/llm/tester.py) and   *)
(* the results list of BaseModelTester (src/src/core/base.py).             *)
(* Floats are exact rationals <<numerator, denominator>>.                  *)
(***************************************************************************)
EXTENDS Integers, Sequences, FiniteSets, TLC

\* ---- bounds of the model ----
MaxRequests == 2
MaxUsers == 2
MaxTime == 2
MaxSamples == 1
MaxDuration == 3
MaxStressUsers == 2
MaxCallTime == 1
MaxIterations == 3
MaxSampleLen == 3
MaxLatency == 7
FloatBits == 3
MaxCalls == 2
MaxRuns == 3

\* ---- program constants ----
MsPerSecond == 1000
RequestsPerUser == 10

Outcomes == {"ok", "error", "fatal"}
WorkKinds == {"ok", "error", "alternate", "fatal"}
CpuVals == {20}
MemVals == {50}

VARIABLES
    num_requests,     \* argument of load_test
    concurrent_users, \* argument of load_test
    pc,               \* position of the calling thread inside load_test
    exc,              \* exception that left load_test, "none" otherwise
    now,              \* time.time()
    start_time,
    end_time,
    req,              \* per future: "unsubmitted", "queued", "running", "done"
    reqStart,         \* start_time local of _execute_request (0 outside it)
    invoked,          \* number of times test_function was called for the future
    outcome,          \* how test_function ended for the future
    result,           \* what the future holds
    collected,        \* futures already yielded by as_completed
    latencies,
    errors,
    monitoring,       \* the stop flag of monitor_resources
    mon,              \* position of the monitor thread
    cpu_samples,
    memory_samples,
    metrics,          \* return value of load_test
    duration_seconds,     \* argument of stress_test
    ramp_up_seconds,      \* argument of stress_test
    max_concurrent_users, \* argument of stress_test
    work,                 \* how the test_function given to stress_test behaves
    spc,                  \* position inside stress_test
    stress_start_time,    \* start_time local of stress_test
    elapsed,
    current_users,
    users_over_time,      \* history: current_users of each iteration
    metrics_over_time,
    earlier,              \* the sample lists of the previous load_test call
                          \* of stress_test, which its monitor thread holds
    sample,               \* latencies of a run, in the order collected
    recollected,          \* the same latencies collected in another order
    stats,                \* aggregation of sample
    restats,              \* aggregation of recollected
    results,              \* self.results of the LLMTester
    calls,                \* history: test operations called so far
    returned,             \* what the last test operation returned
    llm_exc,              \* exception that left the last test operation
    responses             \* responses local of test_prompt_consistency

vars == <<num_requests, concurrent_users, pc, exc, now, start_time, end_time,
          req, reqStart, invoked, outcome, result, collected, latencies,
          errors, monitoring, mon, cpu_samples, memory_samples, metrics,
          duration_seconds, ramp_up_seconds, max_concurrent_users, work, spc,
          stress_start_time, elapsed, current_users, users_over_time,
          metrics_over_time, earlier, sample, recollected, stats, restats,
          results, calls, returned, llm_exc, responses>>

callVars == <<num_requests, concurrent_users>>
poolVars == <<req, reqStart, invoked, outcome, result>>
monVars == <<mon, cpu_samples, memory_samples>>
stressArgs == <<duration_seconds, ramp_up_seconds, max_concurrent_users, work>>
stressVars == <<stressArgs, spc, stress_start_time, elapsed, current_users,
                users_over_time, metrics_over_time, earlier>>
aggVars == <<sample, recollected, stats, restats>>
llmVars == <<results, calls, returned, llm_exc, responses>>
loadVars == <<pc, start_time, end_time, poolVars, collected, latencies, errors,
              monitoring, monVars>>

\* ---- helpers ----
Futures == 1..(IF num_requests > 0 THEN num_requests ELSE 0)

RECURSIVE SumSeq(_)
SumSeq(s) == IF s = <<>> THEN 0 ELSE Head(s) + SumSeq(Tail(s))

RECURSIVE Insert(_, _)
Insert(x, s) ==
    IF s = <<>> THEN <<x>>
    ELSE IF x <= Head(s) THEN <<x>> \o s
    ELSE <<Head(s)>> \o Insert(x, Tail(s))

RECURSIVE Sorted(_)
Sorted(s) == IF s = <<>> THEN <<>> ELSE Insert(Head(s), Sorted(Tail(s)))

RECURSIVE MinSeq(_)
MinSeq(s) ==
    IF Len(s) = 1 THEN Head(s)
    ELSE LET m == MinSeq(Tail(s)) IN IF Head(s) < m THEN Head(s) ELSE m

RECURSIVE MaxSeq(_)
MaxSeq(s) ==
    IF Len(s) = 1 THEN Head(s)
    ELSE LET m == MaxSeq(Tail(s)) IN IF Head(s) > m THEN Head(s) ELSE m

\* rationals
Zero == <<0, 1>>
RatLe(a, b) == a[1] * b[2] <= b[1] * a[2]
RatEq(a, b) == a[1] * b[2] = b[1] * a[2]
RatIsZero(a) == a[1] = 0

\* np.mean
Mean(s) == <<SumSeq(s), Len(s)>>

\* np.percentile(a, p), default linear interpolation: order the sample and
\* interpolate at index (p/100)*(n-1); the value is carried in hundredths.
OrderedAsCollected(s) == s
Ordered(s) == Sorted(s)

PercentileLower(s, p) ==
    LET a == Ordered(s)
        lo == (p * (Len(a) - 1)) \div 100
    IN <<a[lo + 1] * 100, 100>>

Percentile(s, p) ==
    LET a == Ordered(s)
        n == Len(a)
        pos == p * (n - 1)
        lo == pos \div 100
        frac == pos % 100
        hi == IF lo + 1 < n THEN lo + 1 ELSE lo
    IN <<a[lo + 1] * 100 + (a[hi + 1] - a[lo + 1]) * frac, 100>>

\* ThreadPoolExecutor(max_workers=...) raises ValueError for max_workers <= 0
PoolRejectsNegative(max_workers) == max_workers < 0
PoolRejects(max_workers) == max_workers <= 0

\* a pool thread is free to take the next queued work item
Running == {i \in Futures : req[i] = "running"}
WorkerFreeOffByOne(running, max_workers) == running <= max_workers
WorkerFree(running, max_workers) == running < max_workers

ExecuteRequestNoExcept(o, st, en) ==
    IF o \in {"ok", "error"}
    THEN [raised |-> FALSE, success |-> TRUE,
          latency |-> (en - st) * MsPerSecond, error |-> "None"]
    ELSE [raised |-> TRUE, success |-> FALSE, latency |-> -1, error |-> "None"]

\* _execute_request: what the future holds once test_function has ended.
\* "fatal" is a BaseException that `except Exception` does not catch: the
\* executor stores it in the future as its exception.
ExecuteRequest(o, st, en) ==
    IF o = "ok"
    THEN [raised |-> FALSE, success |-> TRUE,
          latency |-> (en - st) * MsPerSecond, error |-> "None"]
    ELSE IF o = "error"
    THEN [raised |-> FALSE, success |-> FALSE, latency |-> -1, error |-> "error"]
    ELSE [raised |-> TRUE, success |-> FALSE, latency |-> -1, error |-> "None"]

NoResult == [raised |-> FALSE, success |-> FALSE, latency |-> -1, error |-> "pending"]

AfterWorkRetry(o) == IF o = "error" THEN "queued" ELSE "done"

\* a work item is run once: whatever test_function did, the future is done
AfterWork(o) == "done"

\* as_completed(futures): the futures it has still to yield
YieldedAgain(futs, coll) == futs
NotYetYielded(futs, coll) == futs \ coll

\* the as_completed loop ends when every future has been yielded
LoopExhaustedAfterFirst(coll, futs) == coll # {} \/ futs = {}
LoopExhaustedAtOnce(coll, futs) == TRUE
LoopExhausted(coll, futs) == coll = futs

\* body of the as_completed loop
RecordLatenciesAlways(r, lat) == Append(lat, r.latency)
RecordLatencies(r, lat) == IF r.success THEN Append(lat, r.latency) ELSE lat
RecordErrorsAlways(r, errs) == Append(errs, r.error)
RecordErrors(r, errs) == IF r.success THEN errs ELSE Append(errs, r.error)

\* line 113: successes per second of the measured span
ThroughputFloorDivision(lat, total_duration) ==
    <<Len(lat) \div total_duration, 1>>
ThroughputPerLatencySum(lat, total_duration) == <<Len(lat) * MsPerSecond, SumSeq(lat)>>
Throughput(lat, total_duration) == <<Len(lat), total_duration>>

\* the throughput division raises ZeroDivisionError
MetricsRaises(lat, total_duration) == lat # <<>> /\ total_duration = 0

ResourceMean(samples) == IF samples # <<>> THEN Mean(samples) ELSE Zero

BuildMetrics(n, lat, errs, total_duration, cpu, mem) ==
    IF lat # <<>>
    THEN [total_requests |-> n,
          successful_requests |-> Len(lat),
          failed_requests |-> Len(errs),
          avg_latency_ms |-> Mean(lat),
          min_latency_ms |-> <<MinSeq(lat), 1>>,
          max_latency_ms |-> <<MaxSeq(lat), 1>>,
          p50_latency_ms |-> Percentile(lat, 50),
          p95_latency_ms |-> Percentile(lat, 95),
          p99_latency_ms |-> Percentile(lat, 99),
          throughput_rps |-> Throughput(lat, total_duration),
          total_duration_s |-> <<total_duration, 1>>,
          cpu_usage_percent |-> ResourceMean(cpu),
          memory_usage_mb |-> ResourceMean(mem)]
    ELSE [total_requests |-> n,
          successful_requests |-> 0,
          failed_requests |-> Len(errs),
          avg_latency_ms |-> Zero,
          min_latency_ms |-> Zero,
          max_latency_ms |-> Zero,
          p50_latency_ms |-> Zero,
          p95_latency_ms |-> Zero,
          p99_latency_ms |-> Zero,
          throughput_rps |-> Zero,
          total_duration_s |-> <<total_duration, 1>>,
          cpu_usage_percent |-> ResourceMean(cpu),
          memory_usage_mb |-> ResourceMean(mem)]

NoMetrics == [total_requests |-> 0,
              successful_requests |-> 0,
              failed_requests |-> 0,
              avg_latency_ms |-> Zero,
              min_latency_ms |-> Zero,
              max_latency_ms |-> Zero,
              p50_latency_ms |-> Zero,
              p95_latency_ms |-> Zero,
              p99_latency_ms |-> Zero,
              throughput_rps |-> Zero,
              total_duration_s |-> Zero,
              cpu_usage_percent |-> Zero,
              memory_usage_mb |-> Zero]

NoEarlier == [call |-> 0, cpu_samples |-> <<>>, memory_samples |-> <<>>]

\* stress_test is not running
StressIdle ==
    /\ duration_seconds = 0
    /\ ramp_up_seconds = 0
    /\ max_concurrent_users = 0
    /\ work = "ok"
    /\ spc = "idle"
    /\ stress_start_time = 0
    /\ elapsed = 0
    /\ current_users = 0
    /\ users_over_time = <<>>
    /\ metrics_over_time = <<>>
    /\ earlier = NoEarlier

\* no aggregation is being compared
NoStats == [avg |-> 0, min |-> 0, max |-> 0, p50 |-> Zero, p95 |-> Zero,
            p99 |-> Zero]
AggIdle ==
    /\ sample = <<>>
    /\ recollected = <<>>
    /\ stats = NoStats
    /\ restats = NoStats

\* no LLMTester is in use
NoReturn == [test_name |-> "none", status |-> "none", score |-> <<>>]
LLMIdle ==
    /\ results = <<>>
    /\ calls = 0
    /\ returned = NoReturn
    /\ llm_exc = "none"
    /\ responses = <<>>

\* ---- initial state: load_test has been called, nothing has run ----
Init ==
    /\ num_requests \in -1..MaxRequests
    /\ concurrent_users \in -1..MaxUsers
    /\ pc = "start"
    /\ exc = "none"
    /\ now = 0
    /\ start_time = 0
    /\ end_time = 0
    /\ req = [i \in Futures |-> "unsubmitted"]
    /\ reqStart = [i \in Futures |-> 0]
    /\ invoked = [i \in Futures |-> 0]
    /\ outcome = [i \in Futures |-> "none"]
    /\ result = [i \in Futures |-> NoResult]
    /\ collected = {}
    /\ latencies = <<>>
    /\ errors = <<>>
    /\ monitoring = FALSE
    /\ mon = "notstarted"
    /\ cpu_samples = <<>>
    /\ memory_samples = <<>>
    /\ metrics = NoMetrics
    /\ StressIdle
    /\ AggIdle
    /\ LLMIdle

\* ---- the clock: time passes while load_test runs ----
Tick ==
    /\ pc \notin {"returned", "raised"}
    /\ now < MaxTime
    /\ now' = now + 1
    /\ UNCHANGED <<aggVars, llmVars, stressVars, callVars, pc, exc, start_time, end_time, poolVars, collected,
                   latencies, errors, monitoring, monVars, metrics>>

\* ---- the calling thread ----
\* lines 62-66: each call binds its locals to new, empty lists
KeptList(old) == old
NewList(old) == <<>>

\* lines 62-78: empty collections, monitoring = True, monitor thread started
StartMonitor ==
    /\ pc = "start"
    /\ latencies' = NewList(latencies)
    /\ errors' = NewList(errors)
    /\ cpu_samples' = NewList(cpu_samples)
    /\ memory_samples' = NewList(memory_samples)
    /\ monitoring' = TRUE
    /\ mon' = "check"
    /\ pc' = "started"
    /\ UNCHANGED <<aggVars, llmVars, stressVars, callVars, exc, now, start_time, end_time, poolVars,
                   collected, metrics>>

\* line 80
RecordStart ==
    /\ pc = "started"
    /\ start_time' = now
    /\ pc' = "pool"
    /\ UNCHANGED <<aggVars, llmVars, stressVars, callVars, exc, now, end_time, poolVars, collected,
                   latencies, errors, monitoring, monVars, metrics>>

\* line 83: the executor's constructor
CreatePool ==
    /\ pc = "pool"
    /\ IF PoolRejects(concurrent_users)
       THEN pc' = "raised" /\ exc' = "ValueError"
       ELSE pc' = (IF num_requests > 0 THEN "submit" ELSE "collect")
            /\ exc' = exc
    /\ UNCHANGED <<aggVars, llmVars, stressVars, callVars, now, start_time, end_time, poolVars, collected,
                   latencies, errors, monitoring, monVars, metrics>>

\* lines 84-85: one executor.submit per element of range(num_requests)
Submit ==
    /\ pc = "submit"
    /\ \E i \in Futures :
        /\ req[i] = "unsubmitted"
        /\ \A j \in Futures : j < i => req[j] # "unsubmitted"
        /\ req' = [req EXCEPT ![i] = "queued"]
        /\ pc' = (IF i = num_requests THEN "collect" ELSE "submit")
    /\ UNCHANGED <<aggVars, llmVars, stressVars, callVars, exc, now, start_time, end_time, reqStart, invoked,
                   outcome, result, collected, latencies, errors, monitoring,
                   monVars, metrics>>

\* lines 87-92: as_completed yields a finished future; its outcome is recorded
Collect ==
    /\ pc = "collect"
    /\ \E i \in NotYetYielded(Futures, collected) :
        /\ req[i] = "done"
        /\ ~result[i].raised
        /\ collected' = collected \cup {i}
        /\ latencies' = RecordLatencies(result[i], latencies)
        /\ errors' = RecordErrors(result[i], errors)
    /\ UNCHANGED <<aggVars, llmVars, stressVars, callVars, pc, exc, now, start_time, end_time, poolVars,
                   monitoring, monVars, metrics>>

\* line 88: future.result() re-raises the exception the future holds; the
\* with block is left through the executor's __exit__
CollectRaises ==
    /\ pc = "collect"
    /\ \E i \in NotYetYielded(Futures, collected) :
        /\ req[i] = "done"
        /\ result[i].raised
        /\ collected' = collected \cup {i}
    /\ pc' = "unwind"
    /\ UNCHANGED <<aggVars, llmVars, stressVars, callVars, exc, now, start_time, end_time, poolVars,
                   latencies, errors, monitoring, monVars, metrics>>

\* executor.__exit__ while the exception propagates: shutdown(wait=True)
\* returns once every submitted work item has run
Unwind ==
    /\ pc = "unwind"
    /\ \A i \in Futures : req[i] = "done"
    /\ pc' = "raised"
    /\ exc' = "BaseException"
    /\ UNCHANGED <<aggVars, llmVars, stressVars, callVars, now, start_time, end_time, poolVars, collected,
                   latencies, errors, monitoring, monVars, metrics>>

\* lines 93-95: the loop is exhausted, the with block ends, end_time is read
\* and the stop flag is cleared
RecordEnd ==
    /\ pc = "collect"
    /\ LoopExhausted(collected, Futures)
    /\ end_time' = now
    /\ monitoring' = FALSE
    /\ pc' = "join"
    /\ UNCHANGED <<aggVars, llmVars, stressVars, callVars, exc, now, start_time, poolVars, collected,
                   latencies, errors, monVars, metrics>>

\* line 96: join is given a timeout, so the wait for the monitor thread ends
JoinWithoutTimeout == FALSE
JoinHasTimeout == TRUE

\* line 96: join(timeout=1) returns because the monitor thread has ended
JoinStopped ==
    /\ pc = "join"
    /\ mon \in {"exited", "crashed"}
    /\ pc' = "compute"
    /\ UNCHANGED <<aggVars, llmVars, stressVars, callVars, exc, now, start_time, end_time, poolVars,
                   collected, latencies, errors, monitoring, monVars, metrics>>

\* line 96: join(timeout=1) returns because the timeout has passed
JoinTimedOut ==
    /\ pc = "join"
    /\ JoinHasTimeout
    /\ mon \notin {"exited", "crashed"}
    /\ pc' = "compute"
    /\ UNCHANGED <<aggVars, llmVars, stressVars, callVars, exc, now, start_time, end_time, poolVars, collected,
                   latencies, errors, monitoring, monVars, metrics>>

\* lines 99-135
Compute ==
    /\ pc = "compute"
    /\ LET total_duration == end_time - start_time IN
       IF MetricsRaises(latencies, total_duration)
       THEN /\ pc' = "raised"
            /\ exc' = "ZeroDivisionError"
            /\ metrics' = metrics
       ELSE /\ pc' = "returned"
            /\ exc' = exc
            /\ metrics' = BuildMetrics(num_requests, latencies, errors,
                                       total_duration, cpu_samples,
                                       memory_samples)
    /\ UNCHANGED <<aggVars, llmVars, stressVars, callVars, now, start_time, end_time, poolVars, collected,
                   latencies, errors, monitoring, monVars>>

\* ---- the pool's worker threads ----
\* a free pool thread takes the oldest queued work item; _execute_request
\* reads the clock and calls test_function (lines 140-142)
StartRequest ==
    /\ pc \in {"submit", "collect", "unwind"}
    /\ WorkerFree(Cardinality(Running), concurrent_users)
    /\ \E i \in Futures :
        /\ req[i] = "queued"
        /\ \A j \in Futures : j < i => req[j] # "queued"
        /\ req' = [req EXCEPT ![i] = "running"]
        /\ reqStart' = [reqStart EXCEPT ![i] = now]
        /\ invoked' = [invoked EXCEPT ![i] = @ + 1]
    /\ UNCHANGED <<aggVars, llmVars, stressVars, callVars, pc, exc, now, start_time, end_time, outcome,
                   result, collected, latencies, errors, monitoring, monVars,
                   metrics>>

\* test_function returns or raises (lines 142-155)
FinishRequest ==
    /\ \E i \in Futures, o \in Outcomes :
        /\ req[i] = "running"
        /\ req' = [req EXCEPT ![i] = AfterWork(o)]
        /\ outcome' = [outcome EXCEPT ![i] = o]
        /\ result' = [result EXCEPT ![i] = ExecuteRequest(o, reqStart[i], now)]
        /\ reqStart' = [reqStart EXCEPT ![i] = 0]
    /\ UNCHANGED <<aggVars, llmVars, stressVars, callVars, pc, exc, now, start_time, end_time,
                   invoked, collected, latencies, errors, monitoring, monVars,
                   metrics>>

\* ---- the monitor thread (lines 71-75) ----
MonitorCheck ==
    /\ mon = "check"
    /\ IF monitoring
       THEN /\ Len(cpu_samples) < MaxSamples
            /\ mon' = "cpu"
       ELSE mon' = "exited"
    /\ UNCHANGED <<aggVars, llmVars, stressVars, callVars, pc, exc, now, start_time, end_time, poolVars,
                   collected, latencies, errors, monitoring, cpu_samples,
                   memory_samples, metrics>>

MonitorCpu ==
    /\ mon = "cpu"
    /\ \E v \in CpuVals :
        cpu_samples' = Append(cpu_samples, v)
    /\ mon' = "mem"
    /\ UNCHANGED <<aggVars, llmVars, stressVars, callVars, pc, exc, now, start_time, end_time, poolVars,
                   collected, latencies, errors, monitoring, memory_samples,
                   metrics>>

MonitorMem ==
    /\ mon = "mem"
    /\ \E v \in MemVals :
        memory_samples' = Append(memory_samples, v)
    /\ mon' = "sleep"
    /\ UNCHANGED <<aggVars, llmVars, stressVars, callVars, pc, exc, now, start_time, end_time, poolVars,
                   collected, latencies, errors, monitoring, cpu_samples,
                   metrics>>

MonitorSleep ==
    /\ mon = "sleep"
    /\ mon' = "check"
    /\ UNCHANGED <<aggVars, llmVars, stressVars, callVars, pc, exc, now, start_time, end_time, poolVars,
                   collected, latencies, errors, monitoring, cpu_samples,
                   memory_samples, metrics>>

MonitorCrashPropagates ==
    /\ mon \in {"cpu", "mem"}
    /\ pc \notin {"returned", "raised"}
    /\ mon' = "crashed"
    /\ pc' = "raised"
    /\ exc' = "psutil.Error"
    /\ UNCHANGED <<aggVars, llmVars, stressVars, callVars, now, start_time, end_time, poolVars,
                   collected, latencies, errors, monitoring, cpu_samples,
                   memory_samples, metrics>>

\* psutil raises inside the thread: the thread ends, nothing propagates
MonitorCrash ==
    /\ mon \in {"cpu", "mem"}
    /\ mon' = "crashed"
    /\ UNCHANGED <<aggVars, llmVars, stressVars, callVars, pc, exc, now, start_time, end_time, poolVars,
                   collected, latencies, errors, monitoring, cpu_samples,
                   memory_samples, metrics>>

Next ==
    \/ Tick
    \/ StartMonitor
    \/ RecordStart
    \/ CreatePool
    \/ Submit
    \/ Collect
    \/ CollectRaises
    \/ Unwind
    \/ RecordEnd
    \/ JoinStopped
    \/ JoinTimedOut
    \/ Compute
    \/ StartRequest
    \/ FinishRequest
    \/ MonitorCheck
    \/ MonitorCpu
    \/ MonitorMem
    \/ MonitorSleep
    \/ MonitorCrash

Spec == Init /\ [][Next]_vars

\* ---- stress_test (lines 157-189) ----
\* int(x) of the quotient num/den, den > 0: truncation towards zero
IntCeil(num, den) == IF num % den = 0 THEN num \div den ELSE num \div den + 1
IntTrunc(num, den) == IF num >= 0 THEN num \div den ELSE -((-num) \div den)

Min2(a, b) == IF a <= b THEN a ELSE b
Max2(a, b) == IF a >= b THEN a ELSE b

\* lines 173-178: the load level for an iteration that starts at elapsed time t
CurrentUsers(t, ramp_up, max_users) ==
    Max2(1, IF t < ramp_up
            THEN IntTrunc(t * max_users, ramp_up)
            ELSE max_users)

\* line 183
RequestsFor(users) == users * RequestsPerUser

\* line 187
OverwriteMetrics(timeline, m) == [k \in 1..(Len(timeline) + 1) |-> m]
PrependMetrics(timeline, m) == <<m>> \o timeline
AppendMetrics(timeline, m) == Append(timeline, m)

\* what one load_test(test_function, n, c) call that lasts d seconds collects
\* when every invocation takes the same share of the d seconds
Successes(kind, n) ==
    IF kind = "ok" THEN n ELSE IF kind = "alternate" THEN n \div 2 ELSE 0
CallLatencies(kind, n, d) ==
    [k \in 1..Successes(kind, n) |-> (d * MsPerSecond) \div RequestsPerUser]
CallErrors(kind, n) == [k \in 1..(n - Successes(kind, n)) |-> "error"]
CallSamples(d, v) == IF d > 0 THEN <<v>> ELSE <<>>

\* no load_test call has been made
LoadIdle ==
    /\ num_requests = 0
    /\ concurrent_users = 0
    /\ pc = "start"
    /\ exc = "none"
    /\ now = 0
    /\ start_time = 0
    /\ end_time = 0
    /\ req = <<>>
    /\ reqStart = <<>>
    /\ invoked = <<>>
    /\ outcome = <<>>
    /\ result = <<>>
    /\ collected = {}
    /\ latencies = <<>>
    /\ errors = <<>>
    /\ monitoring = FALSE
    /\ mon = "notstarted"
    /\ cpu_samples = <<>>
    /\ memory_samples = <<>>
    /\ metrics = NoMetrics

\* stress_test has been called with its arguments; nothing has run
StressInit ==
    /\ duration_seconds \in 1..MaxDuration
    /\ ramp_up_seconds \in -1..MaxDuration
    /\ max_concurrent_users \in 1..MaxStressUsers
    /\ work \in WorkKinds
    /\ spc = "s_start"
    /\ stress_start_time = 0
    /\ elapsed = 0
    /\ current_users = 0
    /\ users_over_time = <<>>
    /\ metrics_over_time = <<>>
    /\ earlier = NoEarlier
    /\ LoadIdle
    /\ AggIdle
    /\ LLMIdle

\* time passes while stress_test runs
StressTick ==
    /\ spc \notin {"s_returned", "s_raised"}
    /\ now < MaxDuration + MaxCallTime
    /\ now' = now + 1
    /\ UNCHANGED <<aggVars, llmVars, stressVars, callVars, loadVars, exc, metrics>>

\* lines 166-167
StressStart ==
    /\ spc = "s_start"
    /\ metrics_over_time' = <<>>
    /\ stress_start_time' = now
    /\ spc' = "s_loop"
    /\ UNCHANGED <<aggVars, llmVars, stressArgs, elapsed, current_users,
                   users_over_time, earlier, callVars, loadVars, exc, now,
                   metrics>>

\* line 169: the loop test; line 189 when it fails
LoopTest ==
    /\ spc = "s_loop"
    /\ spc' = (IF now - stress_start_time < duration_seconds
               THEN "s_body" ELSE "s_returned")
    /\ UNCHANGED <<aggVars, llmVars, stressArgs, stress_start_time, elapsed,
                   current_users, users_over_time, metrics_over_time, earlier,
                   callVars, loadVars, exc, now, metrics>>

\* lines 170-178: the clock is read again and the load level chosen
ChooseLoad ==
    /\ spc = "s_body"
    /\ Len(metrics_over_time) < MaxIterations
    /\ elapsed' = now - stress_start_time
    /\ current_users' = CurrentUsers(elapsed', ramp_up_seconds,
                                     max_concurrent_users)
    /\ users_over_time' = Append(users_over_time, current_users')
    /\ spc' = "s_call"
    /\ UNCHANGED <<aggVars, llmVars, stressArgs, stress_start_time,
                   metrics_over_time, earlier, callVars, loadVars, exc, now,
                   metrics>>

\* line 96: when join(timeout=1) returns, the monitor thread of the call has
\* ended or is still inside an iteration of its loop
MonitorAtJoin == {"exited", "cpu"}

\* lines 72-75 in a monitor thread that outlived its call: the flag of that
\* call is cleared, so the iteration it is in is its last; it appends its
\* samples to the lists of its own call and ends
LastIteration(samples, late, v) == IF late THEN Append(samples, v) ELSE samples

\* lines 181-187: the load_test call and the append of what it returns; an
\* exception of load_test leaves stress_test. While the call runs, the
\* monitor thread of the previous call ends.
CallLoadTest ==
    /\ spc = "s_call"
    /\ num_requests' = RequestsFor(current_users)
    /\ concurrent_users' = current_users
    /\ \E d \in 0..MaxCallTime, c \in CpuVals, m \in MemVals :
        LET late == mon = "cpu"
            lat == NewList(latencies) \o CallLatencies(work, num_requests', d)
            errs == NewList(errors) \o CallErrors(work, num_requests')
            cpu == NewList(cpu_samples) \o CallSamples(d, c)
            mem == NewList(memory_samples) \o CallSamples(d, m)
        IN
        /\ now + d <= MaxDuration + MaxCallTime
        /\ now' = now + d
        /\ cpu_samples' = cpu
        /\ memory_samples' = mem
        /\ earlier' = [call |-> Len(metrics_over_time),
                       cpu_samples |-> LastIteration(cpu_samples, late, c),
                       memory_samples |-> LastIteration(memory_samples, late, m)]
        /\ IF PoolRejects(concurrent_users')
           THEN /\ spc' = "s_raised"
                /\ exc' = "ValueError"
                /\ latencies' = NewList(latencies)
                /\ errors' = NewList(errors)
                /\ monitoring' = TRUE
                /\ mon' = "check"
                /\ UNCHANGED <<metrics, metrics_over_time>>
           ELSE IF work = "fatal"
           THEN /\ spc' = "s_raised"
                /\ exc' = "BaseException"
                /\ latencies' = NewList(latencies)
                /\ errors' = NewList(errors)
                /\ monitoring' = TRUE
                /\ mon' = "check"
                /\ UNCHANGED <<metrics, metrics_over_time>>
           ELSE IF MetricsRaises(lat, d)
           THEN /\ spc' = "s_raised"
                /\ exc' = "ZeroDivisionError"
                /\ latencies' = lat
                /\ errors' = errs
                /\ monitoring' = FALSE
                /\ mon' \in MonitorAtJoin
                /\ UNCHANGED <<metrics, metrics_over_time>>
           ELSE /\ spc' = "s_loop"
                /\ exc' = exc
                /\ latencies' = lat
                /\ errors' = errs
                /\ monitoring' = FALSE
                /\ mon' \in MonitorAtJoin
                /\ metrics' = BuildMetrics(num_requests', lat, errs, d, cpu, mem)
                /\ metrics_over_time' = AppendMetrics(metrics_over_time, metrics')
    /\ UNCHANGED <<aggVars, llmVars, stressArgs, stress_start_time, elapsed,
                   current_users, users_over_time, pc, start_time, end_time,
                   poolVars, collected>>

StressNext ==
    \/ StressTick
    \/ StressStart
    \/ LoopTest
    \/ ChooseLoad
    \/ CallLoadTest

StressSpec == StressInit /\ [][StressNext]_vars

\* ---- latency aggregation over floats (lines 101-112) ----
\* A float is carried as a whole number of units of the format's smallest
\* step, with FloatBits significant bits (53 in binary64): a result that
\* needs more bits is rounded to the nearest float, ties to the even
\* significand.
RECURSIVE Pow2(_)
Pow2(e) == IF e = 0 THEN 1 ELSE 2 * Pow2(e - 1)

RECURSIVE Exponent(_)
Exponent(q) == IF q < Pow2(FloatBits) THEN 0 ELSE 1 + Exponent(q \div 2)

\* the float nearest to num/den, for num >= 0 and den > 0
RoundRat(num, den) ==
    LET ulp == Pow2(Exponent(num \div den))
        m == (num \div den) \div ulp
        lower == m * ulp
        twice == 2 * (num - lower * den)
    IN IF twice < ulp * den THEN lower
       ELSE IF twice > ulp * den THEN lower + ulp
       ELSE IF m % 2 = 0 THEN lower ELSE lower + ulp

FloatAdd(a, b) == RoundRat(a + b, 1)

\* np.add.reduce over a short array: one rounded addition per element, in
\* the order of the array
RECURSIVE FloatSumFrom(_, _)
FloatSumFrom(acc, s) ==
    IF s = <<>> THEN acc ELSE FloatSumFrom(FloatAdd(acc, Head(s)), Tail(s))

\* np.mean: the rounded sum divided by the count, rounded
FloatMean(s) == RoundRat(FloatSumFrom(0, s), Len(s))

\* the latencies a run can measure
FloatVals == {v \in 1..MaxLatency : RoundRat(v, 1) = v}

\* lines 107-112: the latency statistics of one run. The percentiles are a
\* function of the ordered sample.
Aggregate(lat) ==
    [avg |-> FloatMean(lat),
     min |-> MinSeq(lat),
     max |-> MaxSeq(lat),
     p50 |-> Percentile(lat, 50),
     p95 |-> Percentile(lat, 95),
     p99 |-> Percentile(lat, 99)]

\* two runs have measured the same latencies
AggInit ==
    /\ sample \in UNION {[1..n -> FloatVals] : n \in 1..MaxSampleLen}
    /\ recollected = sample
    /\ stats = NoStats
    /\ restats = NoStats
    /\ LoadIdle
    /\ StressIdle
    /\ LLMIdle

\* lines 87-90: as_completed yields the futures in the order they complete,
\* so the second run can collect two latencies the other way round
Recollect ==
    /\ stats = NoStats
    /\ restats = NoStats
    /\ \E i \in 1..(Len(recollected) - 1) :
        recollected' = [recollected EXCEPT ![i] = recollected[i + 1],
                                           ![i + 1] = recollected[i]]
    /\ UNCHANGED <<sample, stats, restats, llmVars, stressVars, callVars,
                   loadVars, exc, now, metrics>>

\* lines 102-112 in the first run
AggregateSample ==
    /\ stats = NoStats
    /\ stats' = Aggregate(sample)
    /\ UNCHANGED <<sample, recollected, restats, llmVars, stressVars,
                   callVars, loadVars, exc, now, metrics>>

\* lines 102-112 in the second run
AggregateRecollected ==
    /\ restats = NoStats
    /\ restats' = Aggregate(recollected)
    /\ UNCHANGED <<sample, recollected, stats, llmVars, stressVars, callVars,
                   loadVars, exc, now, metrics>>

AggNext ==
    \/ Recollect
    \/ AggregateSample
    \/ AggregateRecollected

AggSpec == AggInit /\ [][AggNext]_vars

\* ---- LLMTester (src/src/llm/tester.py) ----
\* how one call of the provider's client ends: with a non-empty output, with
\* an empty output, by raising an Exception, or by raising a BaseException
\* that is no Exception (KeyboardInterrupt, SystemExit)
BackendOutcomes == {"text", "empty", "error", "fatal"}
BackendFailures == {"error", "fatal"}
Responses == {"r1", "r2", "r3"}
Words == {"a", "b"}
None == <<>>

\* base.py, lines 57-59
AddResult(res, r) == Append(res, r)

\* base.py, lines 61-74
GetSummary(res) ==
    LET passed == Cardinality({k \in 1..Len(res) : res[k].status = "passed"})
        failed == Cardinality({k \in 1..Len(res) : res[k].status = "failed"})
    IN [total_tests |-> Len(res),
        passed |-> passed,
        failed |-> failed,
        pass_rate |-> IF Len(res) > 0 THEN <<passed, Len(res)>> ELSE Zero]

\* the except clauses (lines 53-58, 102-107, 149-154, 190-195)
ErrorResult(name) == [test_name |-> name, status |-> "error", score |-> None]

\* lines 134-136
ConsistencyScore(resp, num_runs) ==
    LET unique_responses == Cardinality({resp[k] : k \in 1..Len(resp)})
    IN <<num_runs - (unique_responses - 1), num_runs>>

\* lines 200-212
CalculateSimilarity(words1, words2) ==
    IF words1 = {} \/ words2 = {}
    THEN Zero
    ELSE <<Cardinality(words1 \cap words2), Cardinality(words1 \cup words2)>>

\* a test operation ends: it raised the BaseException of the backend call,
\* or it added its result (lines 60, 109, 156, 197) and returned it
EndOfTest(raises, r) ==
    /\ calls' = calls + 1
    /\ IF raises
       THEN /\ llm_exc' = "BaseException"
            /\ returned' = NoReturn
            /\ results' = results
       ELSE /\ llm_exc' = "none"
            /\ returned' = r
            /\ results' = AddResult(results, r)

\* an LLMTester has been constructed (lines 13-23, base.py lines 42-45)
LLMInit ==
    /\ LLMIdle
    /\ LoadIdle
    /\ StressIdle
    /\ AggIdle

\* lines 25-61
TestInference ==
    /\ calls < MaxCalls
    /\ \E b \in BackendOutcomes :
        EndOfTest(b = "fatal",
                  IF b = "error"
                  THEN ErrorResult("inference_test")
                  ELSE [test_name |-> "inference_test",
                        status |-> IF b = "text" THEN "passed" ELSE "failed",
                        score |-> None])
    /\ responses' = <<>>
    /\ UNCHANGED <<aggVars, stressVars, callVars, loadVars, exc, now, metrics>>

\* lines 63-110: bad is the first request whose backend call raises (0 when
\* none does), t the seconds each backend call takes
TestPerformance ==
    /\ calls < MaxCalls
    /\ \E n \in 0..MaxRuns, prompts \in 0..1, bad \in 0..MaxRuns,
          kind \in BackendFailures, t \in 0..MaxCallTime :
        /\ bad <= n
        /\ EndOfTest(n > 0 /\ prompts > 0 /\ bad > 0 /\ kind = "fatal",
                     IF n = 0 \/ prompts = 0 \/ bad > 0
                     THEN ErrorResult("performance_test")
                     ELSE [test_name |-> "performance_test",
                           status |-> "passed",
                           score |-> <<n * t * MsPerSecond, n>>])
    /\ responses' = <<>>
    /\ UNCHANGED <<aggVars, stressVars, callVars, loadVars, exc, now, metrics>>

\* lines 112-157: resp are the responses of the backend calls, bad the first
\* run whose backend call raises (0 when none does)
TestPromptConsistency ==
    /\ calls < MaxCalls
    /\ \E num_runs \in 0..MaxRuns, bad \in 0..MaxRuns, kind \in BackendFailures :
        /\ bad <= num_runs
        /\ \E resp \in [1..(IF bad > 0 THEN bad - 1 ELSE num_runs) -> Responses] :
            /\ responses' = resp
            /\ EndOfTest(bad > 0 /\ kind = "fatal",
                         IF bad > 0 \/ num_runs = 0
                         THEN ErrorResult("prompt_consistency_test")
                         ELSE [test_name |-> "prompt_consistency_test",
                               status |-> "passed",
                               score |-> ConsistencyScore(resp, num_runs)])
    /\ UNCHANGED <<aggVars, stressVars, callVars, loadVars, exc, now, metrics>>

\* lines 159-198: out are the words of the output, truth those of
\* ground_truth
TestHallucinationDetection ==
    /\ calls < MaxCalls
    /\ \E b \in BackendOutcomes, out \in SUBSET Words, truth \in SUBSET Words :
        /\ (b = "text") = (out # {})
        /\ LET similarity == CalculateSimilarity(out, truth) IN
           EndOfTest(b = "fatal",
                     IF b = "error"
                     THEN ErrorResult("hallucination_detection_test")
                     ELSE [test_name |-> "hallucination_detection_test",
                           status |-> IF 2 * similarity[1] > similarity[2]
                                      THEN "passed" ELSE "failed",
                           score |-> similarity])
    /\ responses' = <<>>
    /\ UNCHANGED <<aggVars, stressVars, callVars, loadVars, exc, now, metrics>>

LLMNext ==
    \/ TestInference
    \/ TestPerformance
    \/ TestPromptConsistency
    \/ TestHallucinationDetection

LLMSpec == LLMInit /\ [][LLMNext]_vars

\* the steps of the calling thread
Caller ==
    \/ StartMonitor
    \/ RecordStart
    \/ CreatePool
    \/ Submit
    \/ Collect
    \/ CollectRaises
    \/ Unwind
    \/ RecordEnd
    \/ JoinStopped
    \/ JoinTimedOut
    \/ Compute

TypeOK ==
    /\ pc \in {"start", "started", "pool", "submit", "collect", "unwind",
               "join", "compute", "returned", "raised"}
    /\ mon \in {"notstarted", "check", "cpu", "mem", "sleep", "exited", "crashed"}
    /\ spc \in {"idle", "s_start", "s_loop", "s_body", "s_call", "s_returned",
                "s_raised"}

\* ---- properties ----
Valid == num_requests > 0 /\ concurrent_users > 0
Ended == pc \in {"returned", "raised"}
Ok == {i \in Futures : outcome[i] = "ok"}
Failed == {i \in Futures : outcome[i] \in {"error", "fatal"}}

\* C1: for total_requests > 0 and concurrency > 0 the returned metrics have
\* total_requests equal to the requested number and successful_requests +
\* failed_requests equal to total_requests.
C1_CountsAddUp ==
    (pc = "returned" /\ Valid) =>
        /\ metrics.total_requests = num_requests
        /\ metrics.successful_requests + metrics.failed_requests = num_requests

C1_Witness ==
    /\ pc = "returned" /\ Valid
    /\ metrics.successful_requests >= 1
    /\ metrics.failed_requests >= 1

\* C2: in the returned metrics successful_requests is the number of work
\* invocations that returned normally and failed_requests the number that
\* raised an error.
C2_CountsMatchOutcomes ==
    pc = "returned" =>
        /\ metrics.successful_requests = Cardinality(Ok)
        /\ metrics.failed_requests = Cardinality(Failed)

C2_Witness ==
    /\ pc = "returned"
    /\ Cardinality(Ok) = 1
    /\ Cardinality(Failed) = 1

\* C3: one call invokes work exactly total_requests times, once per future;
\* a failed invocation is recorded as failed and is never run again.
C3_InvokedExactlyOnce ==
    /\ \A i \in Futures : invoked[i] <= 1
    /\ \A i \in Futures : req[i] = "done" => invoked[i] = 1
    /\ (Ended /\ Valid) => \A i \in Futures : invoked[i] = 1 /\ req[i] = "done"
    /\ pc = "returned" => Len(errors) = Cardinality(Failed)

C3_Witness ==
    /\ pc = "returned" /\ Valid
    /\ num_requests >= 2
    /\ Failed # {}
    /\ \A i \in Futures : invoked[i] = 1

\* C4: at every point of a run the number of work invocations that have
\* started and not finished is at most concurrent_users.
C4_BoundedConcurrency ==
    Cardinality(Running) <= (IF concurrent_users > 0 THEN concurrent_users ELSE 0)

C4_Witness ==
    /\ concurrent_users >= 1
    /\ Cardinality(Running) = concurrent_users
    /\ \E i \in Futures : req[i] = "queued"
\* C5: a failure of a work invocation is captured as a Failure outcome and
\* is never raised out of load_test, however the invocation fails.
C5_FailureNeverRaised ==
    /\ pc # "unwind"
    /\ exc # "BaseException"

\* C6: when every invocation fails, load_test returns metrics instead of
\* raising, with successful_requests = 0, failed_requests = total_requests
\* and every latency field and the throughput equal to 0.0.
ZeroLatencyFields ==
    /\ RatIsZero(metrics.avg_latency_ms)
    /\ RatIsZero(metrics.min_latency_ms)
    /\ RatIsZero(metrics.max_latency_ms)
    /\ RatIsZero(metrics.p50_latency_ms)
    /\ RatIsZero(metrics.p95_latency_ms)
    /\ RatIsZero(metrics.p99_latency_ms)
    /\ RatIsZero(metrics.throughput_rps)

C6_AllFailReturnsZeros ==
    (Ended /\ Valid /\ Failed = Futures) =>
        /\ pc = "returned"
        /\ metrics.successful_requests = 0
        /\ metrics.failed_requests = num_requests
        /\ ZeroLatencyFields

\* C7: a call with total_requests <= 0 is rejected: it does not return
\* metrics.
C7_NonPositiveRequestsRejected ==
    num_requests <= 0 => pc # "returned"

\* C8: a call with concurrency <= 0 is rejected by the calling thread with a
\* configuration error before any work is submitted or invoked, and it
\* never returns metrics.
C8_NonPositiveConcurrencyRejected ==
    concurrent_users <= 0 =>
        /\ pc \in {"start", "started", "pool", "raised"}
        /\ pc = "raised" => exc = "ValueError"
        /\ \A i \in Futures : req[i] = "unsubmitted" /\ invoked[i] = 0

C8_Witness ==
    /\ concurrent_users <= 0
    /\ num_requests > 0
    /\ pc = "raised"
    /\ exc = "ValueError"

\* C9: with total_requests > 0 and concurrency > 0, when every invocation
\* returns or raises an error that _execute_request captures, load_test
\* raises nothing, also when the measured total duration is zero.
C9_ValidCallNeverRaises ==
    (Valid /\ \A i \in Futures : outcome[i] \in {"ok", "error"}) =>
        pc # "raised"

\* C10: whenever successful_requests > 0 the returned metrics satisfy
\* min_latency <= p50 <= p95 <= p99 <= max_latency.
C10_PercentilesOrdered ==
    (pc = "returned" /\ metrics.successful_requests > 0) =>
        /\ RatLe(metrics.min_latency_ms, metrics.p50_latency_ms)
        /\ RatLe(metrics.p50_latency_ms, metrics.p95_latency_ms)
        /\ RatLe(metrics.p95_latency_ms, metrics.p99_latency_ms)
        /\ RatLe(metrics.p99_latency_ms, metrics.max_latency_ms)

C10_Witness ==
    /\ pc = "returned"
    /\ metrics.successful_requests >= 2
    /\ latencies # Sorted(latencies)
    /\ ~RatLe(metrics.p95_latency_ms, metrics.p50_latency_ms)
\* C11: with at least one success, min, max and mean are the minimum, the
\* maximum and the arithmetic mean of the successful latencies, and
\* p50/p95/p99 are the linear interpolation between the order statistics of
\* the successful latencies at fractional index (p/100)*(n-1).
OkLatencies == {result[i].latency : i \in Ok}
NotAbove(v) == Cardinality({i \in Ok : result[i].latency <= v})
Below(v) == Cardinality({i \in Ok : result[i].latency < v})
OrderStat(k) == CHOOSE v \in OkLatencies : Below(v) < k /\ k <= NotAbove(v)

RECURSIVE SumOver(_)
SumOver(S) ==
    IF S = {} THEN 0
    ELSE LET i == CHOOSE j \in S : TRUE IN result[i].latency + SumOver(S \ {i})

Interpolated(p) ==
    LET pos == p * (Cardinality(Ok) - 1)
        lo == pos \div 100
        frac == pos % 100
    IN IF frac = 0
       THEN <<OrderStat(lo + 1), 1>>
       ELSE <<(100 - frac) * OrderStat(lo + 1) + frac * OrderStat(lo + 2), 100>>

C11_LatencyStatistics ==
    (pc = "returned" /\ Ok # {}) =>
        /\ \E v \in OkLatencies :
            /\ \A w \in OkLatencies : v <= w
            /\ RatEq(metrics.min_latency_ms, <<v, 1>>)
        /\ \E v \in OkLatencies :
            /\ \A w \in OkLatencies : v >= w
            /\ RatEq(metrics.max_latency_ms, <<v, 1>>)
        /\ RatEq(metrics.avg_latency_ms, <<SumOver(Ok), Cardinality(Ok)>>)
        /\ RatEq(metrics.p50_latency_ms, Interpolated(50))
        /\ RatEq(metrics.p95_latency_ms, Interpolated(95))
        /\ RatEq(metrics.p99_latency_ms, Interpolated(99))

C11_Witness ==
    /\ pc = "returned"
    /\ Cardinality(Ok) >= 2
    /\ Cardinality(OkLatencies) >= 2
    /\ latencies # Sorted(latencies)
    /\ ~RatEq(metrics.p50_latency_ms, metrics.p95_latency_ms)
\* C12: the latencies that enter the statistics are exactly the
\* (end - start) durations of the invocations that succeeded, each
\* nonnegative; a failed invocation contributes an error description and no
\* latency.
CollectedOk == {i \in collected : result[i].success}
CollectedFailed == {i \in collected : ~result[i].success /\ ~result[i].raised}
Occurrences(s, v) == Cardinality({k \in 1..Len(s) : s[k] = v})

C12_Recorded ==
    pc \in {"collect", "join", "compute", "returned"} =>
        /\ Len(latencies) = Cardinality(CollectedOk)
        /\ \A k \in 1..Len(latencies) : latencies[k] >= 0
        /\ \A i \in CollectedOk :
            Occurrences(latencies, result[i].latency) =
                Cardinality({j \in CollectedOk :
                                result[j].latency = result[i].latency})
        /\ Len(errors) = Cardinality(CollectedFailed)
        /\ \A k \in 1..Len(errors) : errors[k] = "error"
        /\ CollectedOk = collected \cap Ok

C12_Measured ==
    \A i \in Futures :
        (req[i] = "running" /\ req'[i] = "done") =>
            IF outcome'[i] = "ok"
            THEN /\ result'[i].success
                 /\ result'[i].latency = (now - reqStart[i]) * MsPerSecond
                 /\ result'[i].latency >= 0
            ELSE ~result'[i].success

C12_SuccessLatenciesOnly == []C12_Recorded /\ [][C12_Measured]_vars

C12_Witness ==
    /\ pc = "returned"
    /\ Ok # {}
    /\ Failed # {}
    /\ \E k \in 1..Len(latencies) : latencies[k] > 0
\* C13: throughput_rps is >= 0 and, with at least one success, equals
\* successful_requests / total_duration_s, where total_duration_s is the
\* span from a start read before the first invocation begins to an end read
\* after the last invocation completes and before the wait for the sampler.
C13_Throughput ==
    /\ (\E i \in Futures : invoked[i] > 0) => pc \notin {"start", "started"}
    /\ (\E i \in Futures : invoked[i] > 0) => start_time <= now
    /\ pc \in {"join", "compute", "returned"} =>
        /\ \A i \in Futures : req[i] = "done"
        /\ start_time <= end_time
        /\ end_time <= now
    /\ pc = "returned" =>
        /\ RatLe(Zero, metrics.throughput_rps)
        /\ metrics.throughput_rps[2] > 0
        /\ RatEq(metrics.total_duration_s, <<end_time - start_time, 1>>)
        /\ metrics.successful_requests > 0 =>
            /\ end_time - start_time > 0
            /\ RatEq(metrics.throughput_rps,
                     <<metrics.successful_requests, end_time - start_time>>)

C13_Witness ==
    /\ pc = "returned"
    /\ metrics.successful_requests >= 2
    /\ end_time < now
    /\ SumSeq(latencies) # (end_time - start_time) * MsPerSecond
\* C14: load_test computes and returns metrics only after every one of the
\* total_requests invocations has completed; no invocation is cancelled or
\* skipped, also when the call ends by raising out of the pool.
C14_ReturnsAfterAll ==
    /\ pc \in {"join", "compute", "returned"} =>
        /\ collected = Futures
        /\ \A i \in Futures : req[i] = "done" /\ invoked[i] = 1
    /\ (pc = "raised" /\ exc # "ValueError") =>
        \A i \in Futures : req[i] = "done" /\ invoked[i] = 1
    /\ pc # "returned" => metrics = NoMetrics

C14_Witness ==
    /\ pc = "returned"
    /\ num_requests >= 2
    /\ concurrent_users = 1
    /\ metrics.total_requests = num_requests

\* C15: each completed invocation's outcome is recorded exactly once, and
\* only the calling thread, in the as_completed loop, appends to latencies
\* and errors; the workers' steps leave both collections alone.
C15_Counted ==
    /\ pc \in {"collect", "join", "compute", "returned"} =>
        Len(latencies) + Len(errors) = Cardinality(collected)
    /\ pc \in {"join", "compute", "returned"} =>
        Len(latencies) + Len(errors) = Cardinality(Futures)

C15_OnlyCollectorAppends ==
    (latencies' # latencies \/ errors' # errors) =>
        \/ pc = "start"
        \/ /\ pc = "collect"
           /\ req' = req /\ result' = result
           /\ \E i \in Futures \ collected :
                /\ req[i] = "done"
                /\ collected' = collected \cup {i}
           /\ Len(latencies') + Len(errors') = Len(latencies) + Len(errors) + 1

C15_RecordedExactlyOnce == []C15_Counted /\ [][C15_OnlyCollectorAppends]_vars

C15_Witness ==
    /\ pc = "returned"
    /\ concurrent_users = 2
    /\ Len(latencies) = 1
    /\ Len(errors) = 1
\* C16: the sampler is started before the first work invocation is
\* dispatched, and it is signaled to stop only after the last invocation has
\* completed, never while one is pending or running.
StopSignaled == mon # "notstarted" /\ ~monitoring

C16_SamplerSpansRun ==
    /\ (\E i \in Futures : req[i] # "unsubmitted") => mon # "notstarted"
    /\ pc \in {"submit", "collect", "unwind"} => monitoring
    /\ StopSignaled =>
        /\ pc \in {"join", "compute", "returned", "raised"}
        /\ \A i \in Futures : req[i] = "done"

C16_Witness ==
    /\ StopSignaled
    /\ num_requests >= 2
    /\ cpu_samples # <<>>
    /\ mon = "exited"
\* C17: once all invocations have completed, load_test terminates even if
\* the sampler does not stop within the join's wait; the metrics then use
\* the resource samples collected so far, and the counts and latency
\* statistics do not depend on the sampler.
AllCompleted == pc \in {"collect", "unwind"} /\ \A i \in Futures : req[i] = "done"
MeanOfPrefix(r, samples) ==
    \E k \in 0..Len(samples) : RatEq(r, ResourceMean(SubSeq(samples, 1, k)))

C17_FromSamplesSoFar ==
    pc = "returned" =>
        /\ MeanOfPrefix(metrics.cpu_usage_percent, cpu_samples)
        /\ MeanOfPrefix(metrics.memory_usage_mb, memory_samples)
        /\ metrics.successful_requests = Cardinality(Ok)
        /\ metrics.failed_requests = Cardinality(Futures \ Ok)
        /\ LET alone == BuildMetrics(num_requests, latencies, errors,
                                     end_time - start_time, <<>>, <<>>)
           IN /\ metrics.avg_latency_ms = alone.avg_latency_ms
              /\ metrics.min_latency_ms = alone.min_latency_ms
              /\ metrics.max_latency_ms = alone.max_latency_ms
              /\ metrics.p50_latency_ms = alone.p50_latency_ms
              /\ metrics.p95_latency_ms = alone.p95_latency_ms
              /\ metrics.p99_latency_ms = alone.p99_latency_ms

\* the calling thread always has a step to take, whatever the sampler does
C17_NeverBlocked ==
    (AllCompleted \/ pc \in {"join", "compute"}) => ENABLED Caller

\* and each of its steps brings the end of the call nearer
StepsLeft ==
    CASE pc = "collect" -> 4 + Cardinality(Futures \ collected)
      [] pc = "unwind" -> 3
      [] pc = "join" -> 2
      [] pc = "compute" -> 1
      [] OTHER -> 0

C17_Progress ==
    (pc \in {"collect", "unwind", "join", "compute"}
        /\ <<pc, collected>>' # <<pc, collected>>) =>
            StepsLeft' < StepsLeft

C17_TerminatesWithoutSampler ==
    /\ []C17_FromSamplesSoFar
    /\ []C17_NeverBlocked
    /\ [][C17_Progress]_vars

C17_Witness ==
    /\ pc = "returned"
    /\ mon \in {"cpu", "mem", "sleep"}
    /\ Ok # {}
\* C18: a failure inside the sampler never reaches the caller of load_test
\* and never changes the counts, the latency statistics or the throughput;
\* cpu_usage_percent and memory_usage_mb become the mean of the samples
\* taken before the failure, or 0.0 when none was taken.
C18_Degraded ==
    /\ exc \in {"none", "ValueError", "BaseException", "ZeroDivisionError"}
    /\ (mon = "crashed" /\ pc = "returned") =>
        /\ metrics.total_requests = num_requests
        /\ metrics.successful_requests = Cardinality(Ok)
        /\ metrics.failed_requests = Cardinality(Failed)
        /\ MeanOfPrefix(metrics.cpu_usage_percent, cpu_samples)
        /\ MeanOfPrefix(metrics.memory_usage_mb, memory_samples)
        /\ cpu_samples = <<>> => metrics.cpu_usage_percent = Zero
        /\ memory_samples = <<>> => metrics.memory_usage_mb = Zero
        /\ Ok # {} => RatEq(metrics.throughput_rps,
                            <<Cardinality(Ok), end_time - start_time>>)
        /\ Ok # {} => RatEq(metrics.avg_latency_ms,
                            <<SumOver(Ok), Cardinality(Ok)>>)

C18_Contained ==
    /\ (mon # "crashed" /\ mon' = "crashed") =>
        UNCHANGED <<pc, exc, latencies, errors, collected, metrics,
                    cpu_samples, memory_samples, poolVars, monitoring>>
    /\ (mon = "crashed" /\ pc = "compute" /\ pc' = "returned") =>
        /\ metrics'.cpu_usage_percent = ResourceMean(cpu_samples)
        /\ metrics'.memory_usage_mb = ResourceMean(memory_samples)

C18_SamplerFailureContained == []C18_Degraded /\ [][C18_Contained]_vars

C18_Witness ==
    /\ mon = "crashed"
    /\ pc = "returned"
    /\ Ok # {}
    /\ cpu_samples # <<>>
    /\ memory_samples = <<>>
    /\ metrics.cpu_usage_percent # Zero
\* C19 (as stated): in each stress_test iteration started at elapsed time
\* t < duration, the concurrency used is ceil((t / ramp_up) *
\* max_concurrency) clamped to [1, max_concurrency] when t < ramp_up, and
\* max_concurrency when t >= ramp_up.
Clamp(x, lo, hi) == IF x < lo THEN lo ELSE IF x > hi THEN hi ELSE x

C19_CeilRamp ==
    (spc = "s_call" /\ elapsed < duration_seconds) =>
        current_users =
            IF elapsed < ramp_up_seconds
            THEN Clamp(IntCeil(elapsed * max_concurrent_users, ramp_up_seconds),
                       1, max_concurrent_users)
            ELSE max_concurrent_users

\* C19 (amended): the concurrency used is floor((t / ramp_up) *
\* max_concurrency) clamped to [1, max_concurrency] when t < ramp_up, and
\* max_concurrency when t >= ramp_up.
C19_FloorRamp ==
    (spc = "s_call" /\ elapsed < duration_seconds) =>
        IF elapsed < ramp_up_seconds
        THEN \E k \in 0..max_concurrent_users :
                /\ k * ramp_up_seconds <= elapsed * max_concurrent_users
                /\ elapsed * max_concurrent_users < (k + 1) * ramp_up_seconds
                /\ current_users = Clamp(k, 1, max_concurrent_users)
        ELSE current_users = max_concurrent_users

C19_Witness ==
    /\ spc = "s_call"
    /\ elapsed < duration_seconds
    /\ elapsed < ramp_up_seconds
    /\ elapsed * max_concurrent_users > ramp_up_seconds
    /\ current_users * ramp_up_seconds < elapsed * max_concurrent_users
\* C20: every entry of the timeline is the metrics of one complete load
\* test with concurrency c and total_requests = 10*c for the c chosen in its
\* iteration, with successful + failed = 10*c, also for the iteration that
\* runs past duration; the entries are in iteration order.
C20_TimelineEntries ==
    /\ Len(metrics_over_time) <= Len(users_over_time)
    /\ spc \in {"s_loop", "s_body", "s_returned"} =>
        Len(metrics_over_time) = Len(users_over_time)
    /\ \A k \in 1..Len(metrics_over_time) :
        LET m == metrics_over_time[k]
            c == users_over_time[k]
        IN /\ m.total_requests = c * RequestsPerUser
           /\ m.successful_requests + m.failed_requests = c * RequestsPerUser
           /\ m.successful_requests >= 0
           /\ m.failed_requests >= 0

C20_Witness ==
    /\ spc = "s_returned"
    /\ now - stress_start_time > duration_seconds
    /\ Len(metrics_over_time) >= 2
    /\ metrics_over_time[1].total_requests # metrics_over_time[2].total_requests
    /\ metrics_over_time[2].failed_requests > 0
    /\ metrics_over_time[2].successful_requests > 0
\* C21: provided every work invocation terminates and the wall clock
\* advances, stress_test starts no new iteration once the elapsed time has
\* reached duration, and it returns the full timeline of the iterations that
\* were started. A load_test call that measured a zero duration is outside
\* the proviso.
C21_StressReturns ==
    /\ (spc = "s_raised" /\ now - stress_start_time > elapsed) =>
            exc = "ZeroDivisionError"
    /\ spc = "s_returned" =>
        /\ now - stress_start_time >= duration_seconds
        /\ Len(metrics_over_time) = Len(users_over_time)

\* C22: in the timeline of stress_test, total_requests is non-decreasing
\* over the iterations started before ramp_up has elapsed and equals
\* max_concurrency * 10 for every iteration started at or after ramp_up.
C22_Totals ==
    \A k \in 1..Len(metrics_over_time) :
        /\ metrics_over_time[k].total_requests =
                users_over_time[k] * RequestsPerUser
        /\ metrics_over_time[k].total_requests <=
                max_concurrent_users * RequestsPerUser

\* an iteration starts no earlier than the one before it; before ramp_up it
\* uses no fewer users than any earlier iteration, afterwards the maximum
C22_Ramp ==
    users_over_time' # users_over_time =>
        /\ users_over_time' = Append(users_over_time, current_users')
        /\ elapsed' >= elapsed
        /\ elapsed' >= ramp_up_seconds => current_users' = max_concurrent_users
        /\ elapsed' < ramp_up_seconds =>
            \A k \in 1..Len(users_over_time) :
                users_over_time[k] <= current_users'

C22_RampThenConstant == []C22_Totals /\ [][C22_Ramp]_vars

C22_Witness ==
    /\ spc = "s_returned"
    /\ Len(metrics_over_time) = 3
    /\ ramp_up_seconds = 2
    /\ metrics_over_time[1].total_requests = metrics_over_time[2].total_requests
    /\ metrics_over_time[2].total_requests < metrics_over_time[3].total_requests
    /\ metrics_over_time[3].total_requests =
            max_concurrent_users * RequestsPerUser
\* C23: if every invocation of work succeeds and takes a strictly positive
\* time, load_test reports successful_requests = total_requests,
\* failed_requests = 0 and strictly positive avg, min, p50 and p95 latency
\* and throughput.
RatPositive(a) == a[1] > 0 /\ a[2] > 0

C23_AllSucceed ==
    (/\ Ended
     /\ Futures # {}
     /\ \A i \in Futures : outcome[i] = "ok" /\ result[i].latency > 0) =>
        /\ pc = "returned"
        /\ metrics.total_requests = num_requests
        /\ metrics.successful_requests = metrics.total_requests
        /\ metrics.failed_requests = 0
        /\ RatPositive(metrics.avg_latency_ms)
        /\ RatPositive(metrics.min_latency_ms)
        /\ RatPositive(metrics.p50_latency_ms)
        /\ RatPositive(metrics.p95_latency_ms)
        /\ RatPositive(metrics.throughput_rps)

C23_Witness ==
    /\ pc = "returned"
    /\ num_requests >= 2
    /\ \A i \in Futures : outcome[i] = "ok" /\ result[i].latency > 0
    /\ metrics.successful_requests = num_requests
    /\ \E i, j \in Futures : result[i].latency < result[j].latency

\* C28: every sampler started by a load_test call is signaled to stop and
\* stops sampling on every way the call can end, also when the call ends by
\* raising: once the call has ended no monitor thread is left running with
\* its flag still set.
C28_SamplerStopped ==
    Ended => (~monitoring \/ mon \in {"notstarted", "exited", "crashed"})
\* C26: a PerformanceMetrics value is never changed after load_test has
\* constructed it: in stress_test, later iterations and a sampler still
\* running from an earlier iteration leave every entry already appended to
\* the timeline unchanged.
C26_EntriesKept ==
    \A k \in 1..Len(metrics_over_time) :
        /\ k <= Len(metrics_over_time')
        /\ metrics_over_time'[k] = metrics_over_time[k]

C26_MetricsImmutable == [][C26_EntriesKept]_vars

\* the monitor thread of an earlier call appended a sample after that call's
\* entry was built from the samples taken until then
C26_Witness ==
    /\ Len(metrics_over_time) >= 2
    /\ earlier.call >= 1
    /\ earlier.cpu_samples # <<>>
    /\ metrics_over_time[earlier.call].cpu_usage_percent = Zero
    /\ ~RatEq(metrics_over_time[earlier.call].cpu_usage_percent,
              ResourceMean(earlier.cpu_samples))

\* C29: successive load_test calls on the same PerformanceTester are
\* independent: a call's metrics count only the outcomes of its own
\* invocations and the samples of its own sampler; nothing recorded by an
\* earlier call, nor by an earlier call's sampler that outlived its join, is
\* counted in a later call.
C29_OwnOutcomes ==
    (spc # "s_raised" /\ metrics_over_time # <<>>) =>
        LET m == metrics_over_time[Len(metrics_over_time)] IN
        /\ Len(latencies) + Len(errors) = num_requests
        /\ m.total_requests = num_requests
        /\ m.successful_requests = Len(latencies)
        /\ m.failed_requests = Len(errors)
        /\ m.cpu_usage_percent = ResourceMean(cpu_samples)
        /\ m.memory_usage_mb = ResourceMean(memory_samples)

\* a call's sample lists hold what its sampler took while the call ran (at
\* most one sample per second here); what the previous call's sampler still
\* appends goes to the previous call's lists
C29_OwnSamples ==
    (spc = "s_call" /\ spc' # "s_call") =>
        /\ Len(cpu_samples') <= now' - now
        /\ Len(memory_samples') <= now' - now
        /\ Len(earlier'.cpu_samples) >= Len(cpu_samples)
        /\ SubSeq(earlier'.cpu_samples, 1, Len(cpu_samples)) = cpu_samples
        /\ SubSeq(earlier'.memory_samples, 1, Len(memory_samples)) =
                memory_samples

C29_CallsIndependent == []C29_OwnOutcomes /\ [][C29_OwnSamples]_vars

C29_Witness ==
    /\ spc = "s_loop"
    /\ Len(metrics_over_time) >= 2
    /\ Len(earlier.cpu_samples) = 2
    /\ Len(cpu_samples) = 1
    /\ metrics_over_time[1].successful_requests > 0
    /\ metrics_over_time[2].successful_requests = num_requests

\* C30: stress_test called with ramp_up <= 0 (duration > 0, max_concurrency
\* >= 1) never divides by ramp_up: every iteration runs at exactly
\* max_concurrency and the call returns its timeline without raising.
C30_NonPositiveRampUp ==
    ramp_up_seconds <= 0 =>
        /\ spc # "s_raised"
        /\ \A k \in 1..Len(users_over_time) :
                users_over_time[k] = max_concurrent_users
\* C24 (as stated): two runs whose successful latencies form the same
\* multiset yield identical min, max, mean, p50, p95 and p99, whatever the
\* order in which the outcomes were collected.
BothAggregated == stats # NoStats /\ restats # NoStats

C24_OrderIndependent == BothAggregated => stats = restats

\* C24 (amended): the two runs yield identical min, max, p50, p95 and p99
\* whatever the order of collection, and an identical mean when the
\* latencies were collected in the same order.
C24_SortedStatistics ==
    BothAggregated =>
        /\ stats.min = restats.min
        /\ stats.max = restats.max
        /\ stats.p50 = restats.p50
        /\ stats.p95 = restats.p95
        /\ stats.p99 = restats.p99
        /\ recollected = sample => stats.avg = restats.avg

C24_Witness ==
    /\ BothAggregated
    /\ recollected # sample
    /\ Len(sample) = 3
    /\ stats.avg # restats.avg
    /\ stats.p50 = restats.p50
    /\ stats.p50 # stats.p95
\* C25: every call of an LLMTester test operation appends exactly one
\* TestResult to the tester's results and returns that same result, also
\* when the backend call raises (status ERROR, the call does not raise); so
\* after n calls get_summary reports total_tests = n.
C25_OneResultPerCall ==
    /\ llm_exc = "none"
    /\ Len(results) = calls
    /\ GetSummary(results).total_tests = calls
    /\ calls > 0 => returned = results[Len(results)]

\* C27: the consistency score computed by test_prompt_consistency over
\* num_runs >= 1 responses is 1.0 when all responses are identical and 0.0
\* when all responses are pairwise different. A single response, which is
\* both, is left out.
C27_ConsistencyScore ==
    (/\ returned.test_name = "prompt_consistency_test"
     /\ returned.status = "passed"
     /\ Len(responses) >= 2) =>
        /\ (\A i, j \in 1..Len(responses) : responses[i] = responses[j]) =>
                RatEq(returned.score, <<1, 1>>)
        /\ (\A i, j \in 1..Len(responses) :
                i # j => responses[i] # responses[j]) =>
                RatIsZero(returned.score)
====
